---- MODULE Spec2Model ----
(***************************************************************************)
(* kertish-dfs: the manager's cluster catalog (Reserve / Commit / Discard, *)
(* Find) and the head node's write pipeline (create.process).              *)
(*                                                                         *)
(* Sizes are byte counts.  The specifications that share the module:        *)
(*   SpecCatalog  Reserve, Commit and Discard on the catalog;              *)
(*   SpecCreate   one run of create.process with its upload tasks;         *)
(*   SpecRevert   create.revert from its call on, SpecRevertFair the same  *)
(*                under a fair scheduler;                                  *)
(*   SpecFind     cluster.Find over catalogs and placement indexes;        *)
(*   SpecRegister Register, RegisterNodesTo, UnRegisterNode and            *)
(*                UnRegisterCluster, called concurrently;                  *)
(*   SpecMove     MoveCluster with the two sync runs it starts;            *)
(*   SpecSync     one run of syncClusters with the tasks of the slaves,    *)
(*                SpecSyncFair the same run under a fair scheduler;        *)
(*   SpecRouter   the GET requests the manager's router serves.            *)
(***************************************************************************)
EXTENDS Integers, Sequences, FiniteSets, TLC

\* ------------------------------------------------------------ constants --

\* const blockSize uint32 = 1024 * 1024 * 32
blockSize == 1024 * 1024 * 32

\* The granule in which the model draws sizes: 16 MiB.
HalfBlock == blockSize \div 2

\* Bounds of the model.
MaxReqUnits == 4
MaxUsedUnits == 4
MaxSlots == 2

ClusterIds == {"c1", "c2"}
\* SaveAll / GetAll hand the clusters over in id order.
ClusterOrder == <<"c1", "c2">>
Hashes == {"h1", "h2"}
\* The reservation ids (uuids in the code) Reserve can hand out, in the order it does.
ReservationOrder == <<"r1", "r2">>
ReservationIds == {ReservationOrder[i] : i \in 1..Len(ReservationOrder)}

NoError == "nil"
ErrNoSpace == "NoSpace"
ErrNotFound == "NotFound"
ErrNoAvailableClusterNode == "NoAvailableClusterNode"
ErrNoAvailableActionNode == "NoAvailableActionNode"
ErrStore == "Store"

MT_Read == "MT_Read"
MT_Create == "MT_Create"

\* The callers of the manager's operations that may run at the same time.
Callers == {"p1", "p2"}
NoCall == [op |-> "none", pc |-> "done"]

VARIABLES
    clusters,       \* cluster.clusters: the catalog, cluster id -> common.Cluster
    nextReservation,\* how many reservation ids Reserve has handed out
    consumed,       \* reservation ids a Commit or Discard has been called with
    last,           \* the last catalog call, its arguments, the catalog before it, its result
    reservationMap, \* create.reservationMap.Clusters
    readerLeft,     \* bytes the reader of process still holds
    pc,             \* where process is: "loop", "wait", "revert", "done"
    slot,           \* index of the next reservation slot of the loop in process
    failed,         \* create.failed
    chunks,         \* create.chunks
    clusterUsage,   \* create.clusterUsage
    task,           \* the upload goroutines, one per slot
    stored,         \* the chunks the data nodes hold: <<address, hash>>
    ret,            \* what process returned
    index,          \* cluster.index: the placement index, hash -> ids of the clusters holding it
    dataNodes,      \* the data nodes behind cluster2.NewDataNode, by address: what each holds
    call            \* per caller, the manager call it makes: arguments, locals, position, result

catalogVars == <<clusters, nextReservation, consumed, last>>
createVars == <<reservationMap, readerLeft, pc, slot, failed, chunks, clusterUsage, task, stored, ret>>
opVars == <<index, dataNodes, call>>
vars == <<clusters, nextReservation, consumed, last, reservationMap, readerLeft, pc, slot,
          failed, chunks, clusterUsage, task, stored, ret, index, dataNodes, call>>

\* ------------------------------------------------------------- helpers --

Min(a, b) == IF a <= b THEN a ELSE b

RECURSIVE SumOver(_, _)
\* Sum of f[x] over the finite set S.
SumOver(f, S) ==
    IF S = {} THEN 0
    ELSE LET x == CHOOSE y \in S : TRUE IN f[x] + SumOver(f, S \ {x})

RECURSIVE SumSeq(_)
SumSeq(s) == IF s = <<>> THEN 0 ELSE Head(s) + SumSeq(Tail(s))

\* The function f without the key k.
Without(f, k) == [x \in (DOMAIN f) \ {k} |-> f[x]]

\* ------------------------------------------------------ common.Cluster --

MasterAddress(id) == IF id = "c1" THEN "a1" ELSE "a2"
Addresses == {MasterAddress(c) : c \in ClusterIds}

MasterNode(id) ==
    [Id |-> IF id = "c1" THEN "n1" ELSE "n2", Address |-> MasterAddress(id), Master |-> TRUE,
     Quality |-> 0]

\* The capacity of each cluster of the modelled catalog.
ClusterSize(id) == IF id = "c1" THEN 2 * HalfBlock ELSE 3 * HalfBlock

NewCluster(id, used, frozen, paralyzed, nodes) ==
    [Id |-> id, Size |-> ClusterSize(id), Used |-> used, Reservations |-> <<>>,
     Frozen |-> frozen, Paralyzed |-> paralyzed, Nodes |-> nodes]

Reserved(cl) == SumOver(cl.Reservations, DOMAIN cl.Reservations)

\* common.Cluster.Available: size - used - sum of reservations, an unsigned value.
Available(cl) ==
    IF cl.Used + Reserved(cl) >= cl.Size THEN 0 ELSE cl.Size - cl.Used - Reserved(cl)

\* A nil *common.Node.
NilNode == [Id |-> "", Address |-> "", Master |-> FALSE, Quality |-> 0]

\* common.Cluster.Master: the node flagged master, or nil.
Master(cl) ==
    LET ms == {i \in 1..Len(cl.Nodes) : cl.Nodes[i].Master}
    IN IF ms = {} THEN NilNode ELSE cl.Nodes[CHOOSE i \in ms : \A j \in ms : i <= j]

\* common.Cluster.Reserve: add size to the entry of the reservation id.
ClusterReserve(cl, id, size) ==
    [cl EXCEPT !.Reservations =
        [r \in (DOMAIN cl.Reservations) \cup {id} |->
            IF r \in DOMAIN cl.Reservations THEN
                (IF r = id THEN cl.Reservations[r] + size ELSE cl.Reservations[r])
            ELSE size]]

\* common.Cluster.Commit: used += size, then the reservation is removed.
ClusterCommit(cl, id, size) ==
    [cl EXCEPT !.Used = cl.Used + size, !.Reservations = Without(cl.Reservations, id)]

\* common.Cluster.Discard: the reservation is removed, used is not touched.
ClusterDiscard(cl, id) ==
    [cl EXCEPT !.Reservations = Without(cl.Reservations, id)]

\* ------------------------------------------------ createReservationMap --

Eligible(cls) ==
    {c \in ClusterIds : ~cls[c].Frozen /\ ~cls[c].Paralyzed /\ Available(cls[c]) > 0}

\* Claimed share of a cluster: (used + reserved) / size; compared by cross multiplication.
LessLoaded(a, b) ==
    LET la == (a.Size - Available(a)) \div HalfBlock
        lb == (b.Size - Available(b)) \div HalfBlock
    IN la * (b.Size \div HalfBlock) < lb * (a.Size \div HalfBlock)

IdBefore(c, d) ==
    \E i, j \in 1..Len(ClusterOrder) : ClusterOrder[i] = c /\ ClusterOrder[j] = d /\ i < j

\* The eligible cluster of the lowest load, ties broken by cluster id.
Preferred(cls) ==
    CHOOSE c \in Eligible(cls) :
        \A d \in Eligible(cls) \ {c} :
            \/ LessLoaded(cls[c], cls[d])
            \/ (~LessLoaded(cls[d], cls[c]) /\ IdBefore(c, d))

RECURSIVE Fill(_, _, _, _)
\* Greedy fill: up to blockSize per slot from the preferred cluster until the size is
\* placed; the clusters are changed in place, as SaveAll's callback changes them.
Fill(rest, cls, id, slots) ==
    IF rest = 0 THEN [err |-> NoError, clusters |-> cls, slots |-> slots]
    ELSE IF Eligible(cls) = {} THEN [err |-> ErrNoSpace, clusters |-> cls, slots |-> <<>>]
    ELSE LET c == Preferred(cls)
             take == Min(Min(blockSize, rest), Available(cls[c]))
         IN Fill(rest - take,
                 [cls EXCEPT ![c] = ClusterReserve(cls[c], id, take)],
                 id,
                 Append(slots, [Id |-> c, Address |-> MasterAddress(c),
                                Sequence |-> Len(slots), Size |-> take]))

createReservationMap(size, cls, id) == Fill(size, cls, id, <<>>)

\* data.Clusters.SaveAll: what the callback left is persisted on a clean return and
\* dropped when the callback returns an error.
SaveAll(result) == IF result.err = NoError THEN result.clusters ELSE clusters

\* --------------------------------------------- Reserve, Commit, Discard --

\* A Reserve that persists what its callback did also when the callback failed.
ReserveKeepsFailedPlan(size) ==
    LET id == ReservationOrder[nextReservation + 1]
        r == createReservationMap(size, clusters, id)
    IN /\ nextReservation < Len(ReservationOrder)
       /\ clusters' = r.clusters
       /\ nextReservation' = nextReservation + 1
       /\ last' = [op |-> "Reserve", id |-> id, size |-> size, usage |-> <<>>,
                   before |-> clusters, err |-> r.err, slots |-> r.slots, again |-> FALSE]
       /\ UNCHANGED <<consumed, createVars, opVars>>

\* A Reserve that plans on a read-only view: the plan is returned, nothing is persisted.
ReserveNotPersisted(size) ==
    LET id == ReservationOrder[nextReservation + 1]
        r == createReservationMap(size, clusters, id)
    IN /\ nextReservation < Len(ReservationOrder)
       /\ clusters' = clusters
       /\ nextReservation' = nextReservation + 1
       /\ last' = [op |-> "Reserve", id |-> id, size |-> size, usage |-> <<>>,
                   before |-> clusters, err |-> r.err, slots |-> r.slots, again |-> FALSE]
       /\ UNCHANGED <<consumed, createVars, opVars>>

Reserve(size) ==
    LET id == ReservationOrder[nextReservation + 1]
        r == createReservationMap(size, clusters, id)
    IN /\ nextReservation < Len(ReservationOrder)
       /\ clusters' = SaveAll(r)
       /\ nextReservation' = nextReservation + 1
       /\ last' = [op |-> "Reserve", id |-> id, size |-> size, usage |-> <<>>,
                   before |-> clusters, err |-> r.err, slots |-> r.slots, again |-> FALSE]
       /\ UNCHANGED <<consumed, createVars, opVars>>

\* v, has := clusterMap[cluster.Id]; if !has { v = 0 }
CommitUsage(clusterMap, id) == IF id \in DOMAIN clusterMap THEN clusterMap[id] ELSE 0

\* A Commit that walks the usage map instead of the catalog.
CommitOnlyNamed(reservationId, clusterMap) ==
    /\ \A c \in ClusterIds : clusters[c].Used + CommitUsage(clusterMap, c) <= MaxUsedUnits * HalfBlock
    /\ clusters' = [c \in ClusterIds |->
                        IF c \in DOMAIN clusterMap
                        THEN ClusterCommit(clusters[c], reservationId, clusterMap[c])
                        ELSE clusters[c]]
    /\ consumed' = consumed \cup {reservationId}
    /\ last' = [op |-> "Commit", id |-> reservationId, size |-> 0, usage |-> clusterMap,
                before |-> clusters, err |-> NoError, slots |-> <<>>,
                again |-> reservationId \in consumed]
    /\ UNCHANGED <<nextReservation, createVars, opVars>>

Commit(reservationId, clusterMap) ==
    /\ \A c \in ClusterIds : clusters[c].Used + CommitUsage(clusterMap, c) <= MaxUsedUnits * HalfBlock
    /\ clusters' = [c \in ClusterIds |->
                        ClusterCommit(clusters[c], reservationId, CommitUsage(clusterMap, c))]
    /\ consumed' = consumed \cup {reservationId}
    /\ last' = [op |-> "Commit", id |-> reservationId, size |-> 0, usage |-> clusterMap,
                before |-> clusters, err |-> NoError, slots |-> <<>>,
                again |-> reservationId \in consumed]
    /\ UNCHANGED <<nextReservation, createVars, opVars>>

\* A Discard that clears the reservations of every cluster.
DiscardClearsAll(reservationId) ==
    /\ clusters' = [c \in ClusterIds |-> [clusters[c] EXCEPT !.Reservations = <<>>]]
    /\ consumed' = consumed \cup {reservationId}
    /\ last' = [op |-> "Discard", id |-> reservationId, size |-> 0, usage |-> <<>>,
                before |-> clusters, err |-> NoError, slots |-> <<>>,
                again |-> reservationId \in consumed]
    /\ UNCHANGED <<nextReservation, createVars, opVars>>

Discard(reservationId) ==
    /\ clusters' = [c \in ClusterIds |-> ClusterDiscard(clusters[c], reservationId)]
    /\ consumed' = consumed \cup {reservationId}
    /\ last' = [op |-> "Discard", id |-> reservationId, size |-> 0, usage |-> <<>>,
                before |-> clusters, err |-> NoError, slots |-> <<>>,
                again |-> reservationId \in consumed]
    /\ UNCHANGED <<nextReservation, createVars, opVars>>

ReqSizes == {k * HalfBlock : k \in 1..MaxReqUnits}
UsageValues == {0, blockSize}
UsageMaps == UNION {[S -> UsageValues] : S \in SUBSET ClusterIds}

\* The pipeline at rest, for the catalog's specification.
IdleCreate ==
    /\ reservationMap = <<>>
    /\ readerLeft = 0
    /\ pc = "done"
    /\ slot = 1
    /\ failed = FALSE
    /\ chunks = <<>>
    /\ clusterUsage = <<>>
    /\ task = <<>>
    /\ stored = {}
    /\ ret = [err |-> "idle", chunks |-> <<>>, usage |-> <<>>]

\* No manager call in progress, an empty index, no data node modelled.
IdleOps ==
    /\ index = [h \in Hashes |-> {}]
    /\ dataNodes = <<>>
    /\ call = [p \in Callers |-> NoCall]

\* The catalog at rest, for the pipeline's specification.
IdleCatalog ==
    /\ clusters = [c \in ClusterIds |-> NewCluster(c, 0, FALSE, FALSE, <<MasterNode(c)>>)]
    /\ nextReservation = 0
    /\ consumed = {}
    /\ last = [op |-> "none", id |-> "", size |-> 0, usage |-> <<>>, before |-> clusters,
               err |-> NoError, slots |-> <<>>, again |-> FALSE]

InitCatalog ==
    /\ \E frozen \in [{"c1"} -> BOOLEAN], paralyzed \in [{"c2"} -> BOOLEAN] :
          clusters = [c \in ClusterIds |->
                        NewCluster(c, 0, c \in DOMAIN frozen /\ frozen[c],
                                   c \in DOMAIN paralyzed /\ paralyzed[c], <<MasterNode(c)>>)]
    /\ nextReservation = 0
    /\ consumed = {}
    /\ last = [op |-> "none", id |-> "", size |-> 0, usage |-> <<>>, before |-> clusters,
               err |-> NoError, slots |-> <<>>, again |-> FALSE]
    /\ IdleCreate
    /\ IdleOps

NextCatalog ==
    \/ \E size \in ReqSizes : Reserve(size)
    \/ \E r \in ReservationIds, m \in UsageMaps : Commit(r, m)
    \/ \E r \in ReservationIds : Discard(r)

SpecCatalog == InitCatalog /\ [][NextCatalog]_vars

\* ---------------------------------------------------------------- Find --

\* common.Cluster.HighQualityNode: the node of the best quality, or nil.
HighQualityNode(cl) ==
    IF cl.Nodes = <<>> THEN NilNode
    ELSE cl.Nodes[CHOOSE i \in 1..Len(cl.Nodes) :
                     \A j \in 1..Len(cl.Nodes) :
                        \/ cl.Nodes[i].Quality > cl.Nodes[j].Quality
                        \/ (cl.Nodes[i].Quality = cl.Nodes[j].Quality /\ i <= j)]

\* data.Index.Find: the first candidate, in the candidates' order, that holds the hash.
IndexFind(clusterIds, idx, sha512Hex) ==
    LET hits == {i \in 1..Len(clusterIds) : clusterIds[i] \in idx[sha512Hex]}
    IN IF hits = {} THEN [clusterId |-> "", err |-> ErrNotFound]
       ELSE [clusterId |-> clusterIds[CHOOSE i \in hits : \A j \in hits : i <= j],
             err |-> NoError]

FindResult(clusterId, address, err) == [clusterId |-> clusterId, address |-> address, err |-> err]

\* A Find that hands out the cluster's node whether or not the cluster is paralyzed.
FindIgnoresParalyzed(cls, idx, getAllErr, sha512Hex, mapType) ==
    IF getAllErr THEN FindResult("", "", ErrStore)
    ELSE LET found == IndexFind(ClusterOrder, idx, sha512Hex)
         IN IF found.err # NoError THEN FindResult("", "", found.err)
            ELSE LET cluster == cls[found.clusterId]
                     node == IF mapType = MT_Read THEN HighQualityNode(cluster)
                             ELSE Master(cluster)
                 IN IF node = NilNode THEN FindResult("", "", ErrNoAvailableActionNode)
                    ELSE FindResult(found.clusterId, node.Address, NoError)

\* cluster.Find over the catalog cls and the placement index idx; getAllErr is the
\* outcome of clusters.GetAll().
Find(cls, idx, getAllErr, sha512Hex, mapType) ==
    IF getAllErr THEN FindResult("", "", ErrStore)
    ELSE LET found == IndexFind(ClusterOrder, idx, sha512Hex)
         IN IF found.err # NoError THEN FindResult("", "", found.err)
            ELSE LET cluster == cls[found.clusterId]
                     node == IF mapType = MT_Read THEN HighQualityNode(cluster)
                             ELSE Master(cluster)
                 IN IF cluster.Paralyzed THEN FindResult("", "", ErrNoAvailableClusterNode)
                    ELSE IF node = NilNode THEN FindResult("", "", ErrNoAvailableActionNode)
                    ELSE FindResult(found.clusterId, node.Address, NoError)

\* The manager states an upload task's lookup may meet.
FindCatalogs ==
    {[c \in ClusterIds |->
        NewCluster(c, 0, FALSE, par[c], IF mas[c] THEN <<MasterNode(c)>> ELSE <<>>)] :
     par \in [ClusterIds -> BOOLEAN], mas \in [ClusterIds -> BOOLEAN]}

IndexOf(sha512Hex, holders) == [h \in Hashes |-> IF h = sha512Hex THEN holders ELSE {}]

\* What findClusterHandler can answer for a hash: cluster.Find in any of these manager
\* states, with whether any cluster's index held the hash.
Lookups(sha512Hex) ==
    {[r |-> Find(cls, IndexOf(sha512Hex, holders), getAllErr, sha512Hex, MT_Create),
      known |-> holders # {}] :
     cls \in FindCatalogs, holders \in SUBSET ClusterIds, getAllErr \in BOOLEAN}

\* ------------------------------------------------------ create.process --

SlotSize(i, n) == IF i < n THEN blockSize ELSE HalfBlock

\* The reservation maps of n slots: sequences from 0, the master's address of each
\* slot's cluster, full blocks but for the last slot.
ReservationMaps(n) ==
    {[i \in 1..n |-> [Id |-> ids[i], Address |-> MasterAddress(ids[i]),
                      Sequence |-> i - 1, Size |-> SlotSize(i, n)]] :
     ids \in [1..n -> ClusterIds]}

RECURSIVE SizeOfSlots(_, _)
\* The bytes of the first k slots.
SizeOfSlots(m, k) == IF k = 0 THEN 0 ELSE m[k].Size + SizeOfSlots(m, k - 1)

\* calculateHash of the buffer read for a slot: the content of the stream.
ContentHash(i) == IF i % 2 = 1 THEN "h1" ELSE "h2"

IdleTask == [st |-> "idle", hash |-> "", findErr |-> "", known |-> FALSE, clusterId |-> "",
             address |-> "", created |-> FALSE, exists |-> FALSE, blame |-> ""]

Running == [err |-> "running", chunks |-> <<>>, usage |-> <<>>]

InitCreate ==
    /\ IdleCatalog
    /\ IdleOps
    /\ \E n \in 1..MaxSlots :
          /\ reservationMap \in ReservationMaps(n)
          /\ readerLeft \in {SizeOfSlots(reservationMap, k) : k \in 0..n}
          /\ task = [i \in 1..n |-> IdleTask]
    /\ pc = "loop"
    /\ slot = 1
    /\ failed = FALSE
    /\ chunks = <<>>
    /\ clusterUsage = <<>>
    /\ stored \in SUBSET {<<a, "h1">> : a \in Addresses}
    /\ ret = Running

\* process, one pass of the loop over the slots: the look at c.failed (a read that
\* races with the tasks' writes, so it may still see false), the read of the slot's
\* bytes, the launch of the upload task; a short read returns the error at once.
ProcessLoop ==
    /\ pc = "loop"
    /\ UNCHANGED <<catalogVars, opVars, failed, chunks, clusterUsage, stored, reservationMap>>
    /\ IF slot > Len(reservationMap)
       THEN pc' = "wait" /\ UNCHANGED <<slot, readerLeft, task, ret>>
       ELSE \E seen \in (IF failed THEN {TRUE, FALSE} ELSE {FALSE}) :
              IF seen
              THEN pc' = "wait" /\ UNCHANGED <<slot, readerLeft, task, ret>>
              ELSE IF readerLeft < reservationMap[slot].Size
              THEN /\ pc' = "done"
                   /\ ret' = [err |-> "read", chunks |-> <<>>, usage |-> <<>>]
                   /\ readerLeft' = 0
                   /\ UNCHANGED <<slot, task>>
              ELSE /\ readerLeft' = readerLeft - reservationMap[slot].Size
                   /\ task' = [task EXCEPT ![slot] =
                                 [IdleTask EXCEPT !.st = "find", !.hash = ContentHash(slot)]]
                   /\ slot' = slot + 1
                   /\ UNCHANGED <<pc, ret>>

DataChunks(cs) == [i \in 1..Len(cs) |->
                     [Sequence |-> cs[i].Sequence, Size |-> cs[i].Size, Hash |-> cs[i].Hash]]

\* process after the loop: wg.Wait(), then revert and the error, or the chunks.
ProcessWait ==
    /\ pc = "wait"
    /\ \A t \in DOMAIN task : task[t].st \in {"idle", "done"}
    /\ IF failed
       THEN pc' = "revert" /\ UNCHANGED ret
       ELSE /\ pc' = "done"
            /\ ret' = [err |-> NoError, chunks |-> DataChunks(chunks), usage |-> clusterUsage]
    /\ UNCHANGED <<catalogVars, opVars, reservationMap, readerLeft, slot, failed, chunks,
                   clusterUsage, task, stored>>

\* upload up to the fallback: the lookup and what the task makes of its error.
UploadFindFallsBackOnNotFound(t) ==
    /\ task[t].st = "find"
    /\ \E lookup \in Lookups(task[t].hash) :
          LET r == lookup.r
              looked == [task[t] EXCEPT !.findErr = r.err, !.known = lookup.known]
          IN IF r.err \notin {NoError, ErrNoAvailableActionNode, ErrNotFound}
             THEN /\ failed' = TRUE
                  /\ task' = [task EXCEPT ![t] = [looked EXCEPT !.st = "done", !.blame = "find"]]
             ELSE IF r.err # NoError
             THEN /\ task' = [task EXCEPT ![t] =
                                [looked EXCEPT !.st = "create",
                                               !.clusterId = reservationMap[t].Id,
                                               !.address = reservationMap[t].Address]]
                  /\ UNCHANGED failed
             ELSE /\ task' = [task EXCEPT ![t] =
                                [looked EXCEPT !.st = "create", !.clusterId = r.clusterId,
                                               !.address = r.address]]
                  /\ UNCHANGED failed
    /\ UNCHANGED <<catalogVars, opVars, reservationMap, readerLeft, pc, slot, chunks, clusterUsage,
                   stored, ret>>

UploadFind(t) ==
    /\ task[t].st = "find"
    /\ \E lookup \in Lookups(task[t].hash) :
          LET r == lookup.r
              looked == [task[t] EXCEPT !.findErr = r.err, !.known = lookup.known]
          IN IF r.err \notin {NoError, ErrNoAvailableActionNode}
             THEN /\ failed' = TRUE
                  /\ task' = [task EXCEPT ![t] = [looked EXCEPT !.st = "done", !.blame = "find"]]
             ELSE IF r.err = ErrNoAvailableActionNode
             THEN /\ task' = [task EXCEPT ![t] =
                                [looked EXCEPT !.st = "create",
                                               !.clusterId = reservationMap[t].Id,
                                               !.address = reservationMap[t].Address]]
                  /\ UNCHANGED failed
             ELSE /\ task' = [task EXCEPT ![t] =
                                [looked EXCEPT !.st = "create", !.clusterId = r.clusterId,
                                               !.address = r.address]]
                  /\ UNCHANGED failed
    /\ UNCHANGED <<catalogVars, opVars, reservationMap, readerLeft, pc, slot, chunks, clusterUsage,
                   stored, ret>>

\* upload from dataNodeProviderHandler to dn.Create: the provider may fail, Create may
\* fail, or Create stores the chunk and tells whether it was there already.
UploadCreate(t) ==
    /\ task[t].st = "create"
    /\ \E outcome \in {"provider", "create", "ok"} :
          IF outcome = "provider"
          THEN /\ failed' = TRUE
               /\ task' = [task EXCEPT ![t].st = "done", ![t].blame = "provider"]
               /\ UNCHANGED stored
          ELSE IF outcome = "create"
          THEN /\ failed' = TRUE
               /\ task' = [task EXCEPT ![t].st = "done", ![t].blame = "create",
                                       ![t].created = TRUE, ![t].exists = TRUE]
               /\ UNCHANGED stored
          ELSE /\ stored' = stored \cup {<<task[t].address, task[t].hash>>}
               /\ task' = [task EXCEPT ![t].st = "add", ![t].created = TRUE,
                                       ![t].exists = (<<task[t].address, task[t].hash>> \in stored)]
               /\ UNCHANGED failed
    /\ UNCHANGED <<catalogVars, opVars, reservationMap, readerLeft, pc, slot, chunks, clusterUsage, ret>>

\* An addChunk that counts the size whether or not the chunk existed.
AddChunkCountsExisting(t) ==
    /\ task[t].st = "add"
    /\ clusterUsage' =
         [c \in (DOMAIN clusterUsage) \cup {task[t].clusterId} |->
            (IF c \in DOMAIN clusterUsage THEN clusterUsage[c] ELSE 0)
            + (IF c = task[t].clusterId THEN reservationMap[t].Size ELSE 0)]
    /\ chunks' = Append(chunks, [Sequence |-> reservationMap[t].Sequence,
                                 Size |-> reservationMap[t].Size, Hash |-> task[t].hash,
                                 address |-> task[t].address])
    /\ task' = [task EXCEPT ![t].st = "done"]
    /\ UNCHANGED <<catalogVars, opVars, reservationMap, readerLeft, pc, slot, failed, stored, ret>>

\* The end of upload: addChunk under chunksLock, then wg.Done().
AddChunk(t) ==
    /\ task[t].st = "add"
    /\ clusterUsage' =
         [c \in (DOMAIN clusterUsage) \cup {task[t].clusterId} |->
            (IF c \in DOMAIN clusterUsage THEN clusterUsage[c] ELSE 0)
            + (IF c = task[t].clusterId /\ ~task[t].exists THEN reservationMap[t].Size ELSE 0)]
    /\ chunks' = Append(chunks, [Sequence |-> reservationMap[t].Sequence,
                                 Size |-> reservationMap[t].Size, Hash |-> task[t].hash,
                                 address |-> task[t].address])
    /\ task' = [task EXCEPT ![t].st = "done"]
    /\ UNCHANGED <<catalogVars, opVars, reservationMap, readerLeft, pc, slot, failed, stored, ret>>

\* A revert that gives up a chunk whose lookup or Delete fails.
RevertDropsFailed ==
    /\ pc = "revert"
    /\ IF chunks = <<>>
       THEN /\ pc' = "done"
            /\ ret' = [err |-> "create is failed", chunks |-> <<>>, usage |-> <<>>]
            /\ UNCHANGED <<chunks, stored>>
       ELSE \E outcome \in {"provider", "delete", "ok"} :
              IF outcome = "ok"
              THEN /\ stored' = stored \ {<<Head(chunks).address, Head(chunks).Hash>>}
                   /\ chunks' = Tail(chunks)
                   /\ UNCHANGED <<pc, ret>>
              ELSE /\ chunks' = Tail(chunks)
                   /\ UNCHANGED <<pc, ret, stored>>
    /\ UNCHANGED <<catalogVars, opVars, reservationMap, readerLeft, slot, failed, clusterUsage, task>>

\* revert, one pass of its loop: the first chunk is deleted and dropped, or, when the
\* provider or Delete fails, moved to the tail; the loop ends when no chunk is left.
Revert ==
    /\ pc = "revert"
    /\ IF chunks = <<>>
       THEN /\ pc' = "done"
            /\ ret' = [err |-> "create is failed", chunks |-> <<>>, usage |-> <<>>]
            /\ UNCHANGED <<chunks, stored>>
       ELSE \E outcome \in {"provider", "delete", "ok"} :
              IF outcome = "ok"
              THEN /\ stored' = stored \ {<<Head(chunks).address, Head(chunks).Hash>>}
                   /\ chunks' = Tail(chunks)
                   /\ UNCHANGED <<pc, ret>>
              ELSE /\ chunks' = Append(Tail(chunks), Head(chunks))
                   /\ UNCHANGED <<pc, ret, stored>>
    /\ UNCHANGED <<catalogVars, opVars, reservationMap, readerLeft, slot, failed, clusterUsage, task>>

NextCreate ==
    \/ ProcessLoop
    \/ ProcessWait
    \/ \E t \in DOMAIN task : UploadFind(t)
    \/ \E t \in DOMAIN task : UploadCreate(t)
    \/ \E t \in DOMAIN task : AddChunk(t)
    \/ Revert

SpecCreate == InitCreate /\ [][NextCreate]_vars

\* ------------------------------------------------- revert, on its own --

\* The bytes of a list of chunks.
RECURSIVE ChunkBytes(_)
ChunkBytes(cs) == IF cs = <<>> THEN 0 ELSE Head(cs).Size + ChunkBytes(Tail(cs))

\* The orders in which the tasks of the given slots can have reached addChunk.
AddOrders(slots) ==
    {f \in [1..Cardinality(slots) -> slots] : \A i, j \in DOMAIN f : i # j => f[i] # f[j]}

\* The most slots of a write whose revert is followed.
MaxRevertSlots == 3

\* process at the call of revert: every task has ended, the task of one slot has
\* failed, the chunks of the others are recorded, in any order, and stored.
InitRevert ==
    /\ IdleCatalog
    /\ IdleOps
    /\ \E n \in 2..MaxRevertSlots :
       \E m \in ReservationMaps(n), bad \in 1..n :
       \E order \in AddOrders((1..n) \ {bad}) :
          LET recorded == [i \in DOMAIN order |->
                             [Sequence |-> m[order[i]].Sequence, Size |-> m[order[i]].Size,
                              Hash |-> ContentHash(order[i]), address |-> m[order[i]].Address]]
          IN /\ reservationMap = m
             /\ slot = n + 1
             /\ chunks = recorded
             /\ stored = {<<recorded[i].address, recorded[i].Hash>> : i \in DOMAIN recorded}
             /\ clusterUsage =
                   [c \in {m[i].Id : i \in (1..n) \ {bad}} |->
                      ChunkBytes(SelectSeq(recorded, LAMBDA k : k.address = MasterAddress(c)))]
             /\ task = [i \in 1..n |->
                          IF i = bad
                          THEN [IdleTask EXCEPT !.st = "done", !.hash = ContentHash(i),
                                                !.clusterId = m[i].Id, !.address = m[i].Address,
                                                !.blame = "provider"]
                          ELSE [IdleTask EXCEPT !.st = "done", !.hash = ContentHash(i),
                                                !.clusterId = m[i].Id, !.address = m[i].Address,
                                                !.created = TRUE]]
    /\ readerLeft = 0
    /\ pc = "revert"
    /\ failed = TRUE
    /\ ret = Running

NextRevert == Revert

SpecRevert == InitRevert /\ [][NextRevert]_vars

\* revert's loop is scheduled: it makes its next pass while it can.
SpecRevertFair == SpecRevert /\ WF_vars(NextRevert)

\* --------------------------------------------------- Find, on its own --

SlaveNode(id) ==
    [Id |-> IF id = "c1" THEN "n3" ELSE "n4", Address |-> IF id = "c1" THEN "a3" ELSE "a4",
     Master |-> FALSE, Quality |-> 1]

\* The node lists of a cluster: none, a master, a master and a slave of better quality.
NodeLists(id) == {<<>>, <<MasterNode(id)>>, <<MasterNode(id), SlaveNode(id)>>}

InitFind ==
    /\ \E par \in [ClusterIds -> BOOLEAN] :
       \E n1 \in NodeLists("c1"), n2 \in NodeLists("c2") :
          clusters = [c \in ClusterIds |->
                        NewCluster(c, 0, FALSE, par[c], IF c = "c1" THEN n1 ELSE n2)]
    /\ index \in [Hashes -> SUBSET ClusterIds]
    /\ dataNodes = <<>>
    /\ call = [p \in Callers |-> NoCall]
    /\ nextReservation = 0
    /\ consumed = {}
    /\ last = [op |-> "none"]
    /\ IdleCreate

\* One call of cluster.Find on the catalog and index of the state.
CallFind(p, sha512Hex, mapType, getAllErr) ==
    /\ call' = [call EXCEPT ![p] =
                    [op |-> "Find", pc |-> "done", hash |-> sha512Hex, mapType |-> mapType,
                     getAllErr |-> getAllErr,
                     res |-> Find(clusters, index, getAllErr, sha512Hex, mapType)]]
    /\ UNCHANGED <<catalogVars, createVars, index, dataNodes>>

MapTypes == {MT_Read, MT_Create, "MT_Delete"}

NextFind ==
    \E p \in Callers, h \in Hashes, mt \in MapTypes, e \in BOOLEAN : CallFind(p, h, mt, e)

SpecFind == InitFind /\ [][NextFind]_vars

\* ------------------------------------------- registration of nodes --
\* What the data nodes answer to Ping, Join, Leave and Mode is an input of each
\* action; the calls of this section read nothing else of a data node.

ErrRegistered == "Registered"
ErrPing == "Ping"
ErrMode == "Mode"
ErrJoin == "Join"
ErrTwice == "node address entered twice"
ErrSize == "inconsistent size between master and slave"
Panic == "panic"

\* The data nodes that can be reached, by address.
Addrs == {"a1", "a2", "a3"}

\* newNodeId: one id per (hardware id, address, size), so one per address.
newNodeId(address) ==
    CASE address = "a1" -> "n1" [] address = "a2" -> "n2" [] address = "a3" -> "n3"

NodeIds == {newNodeId(a) : a \in Addrs}

\* What a node answers to Size.
NodeSize(address) == IF address = "a3" THEN 3 * HalfBlock ELSE 2 * HalfBlock

\* A node as prepareNodes builds it.
NodeOf(address) ==
    [Id |-> newNodeId(address), Address |-> address, Master |-> FALSE, Quality |-> 0]

\* The lists of node addresses a call is given: none, one, two (twice the same too).
AddressLists == {<<>>} \cup {<<a>> : a \in Addrs} \cup {<<a, b>> : a \in Addrs, b \in Addrs}

Range(s) == {s[i] : i \in DOMAIN s}

\* The orders in which a Go map of the given keys can be walked.
MapOrders(keys) ==
    {f \in [1..Cardinality(keys) -> keys] : \A i, j \in DOMAIN f : i # j => f[i] # f[j]}

\* ClusterIdOf: the ids of the clusters whose node list holds the node id.
ClusterIdOf(cls, nodeId) ==
    {c \in DOMAIN cls : \E i \in DOMAIN cls[c].Nodes : cls[c].Nodes[i].Id = nodeId}

\* The loop of prepareNodes from the i-th address on; down are the nodes that do
\* not answer Ping.
RECURSIVE PrepareFrom(_, _, _, _, _, _)
PrepareFrom(cls, nodeAddresses, i, seen, clusterSize, down) ==
    IF i > Len(nodeAddresses) THEN [err |-> NoError, size |-> clusterSize]
    ELSE LET nodeAddress == nodeAddresses[i]
         IN IF nodeAddress \in seen THEN [err |-> ErrTwice, size |-> 0]
            ELSE IF nodeAddress \in down THEN [err |-> ErrPing, size |-> 0]
            ELSE IF clusterSize > 0 /\ NodeSize(nodeAddress) # clusterSize
                 THEN [err |-> ErrSize, size |-> 0]
            ELSE IF ClusterIdOf(cls, newNodeId(nodeAddress)) # {}
                 THEN [err |-> ErrRegistered, size |-> 0]
            ELSE PrepareFrom(cls, nodeAddresses, i + 1, seen \cup {nodeAddress},
                             NodeSize(nodeAddress), down)

prepareNodes(cls, nodeAddresses, clusterSize, down) ==
    PrepareFrom(cls, nodeAddresses, 1, {}, clusterSize, down)

\* A caller can start a call when it is in none.
Ready(p) == call[p].pc = "done"

\* Save(clusterId, f) holds the cluster's write lock while f runs.
Locked(clusterId) ==
    \E p \in Callers : call[p].pc = "saving" /\ call[p].clusterId = clusterId

\* newClusterId: an id no cluster has and no call in progress has drawn.
FreshIds ==
    ClusterIds \ (DOMAIN clusters \cup {call[p].clusterId : p \in {q \in Callers : call[q].pc = "prepared"}})

Done(op, err) == [op |-> op, err |-> err]

\* The call of p returns: its outcome is the last one recorded.
Return(p, outcome) ==
    /\ call' = [call EXCEPT ![p] = NoCall]
    /\ last' = outcome

\* Register up to the return of prepareNodes.
RegisterPrepare(p, nodeAddresses, down) ==
    /\ Ready(p)
    /\ FreshIds # {}
    /\ LET r == prepareNodes(clusters, nodeAddresses, 0, down)
       IN IF r.err # NoError
          THEN Return(p, Done("Register", r.err))
          ELSE /\ \E id \in FreshIds, order \in MapOrders(Range(nodeAddresses)) :
                     call' = [call EXCEPT ![p] =
                                 [op |-> "Register", pc |-> "prepared", clusterId |-> id,
                                  size |-> r.size,
                                  nodes |-> [i \in DOMAIN order |-> NodeOf(order[i])]]]
               /\ UNCHANGED last
    /\ UNCHANGED <<clusters, nextReservation, consumed, createVars, index, dataNodes>>

\* A Register that marks no node as the master.
RegisterJoinNoMaster(p, failAt, storeErr) ==
    /\ call[p].pc = "prepared"
    /\ failAt \in 0..Len(call[p].nodes)
    /\ LET id == call[p].clusterId
           nodes == call[p].nodes
           cluster == [NewCluster(id, 0, FALSE, FALSE, nodes) EXCEPT !.Size = call[p].size]
       IN /\ UNCHANGED dataNodes
          /\ IF failAt # 0
             THEN /\ Return(p, Done("Register", ErrMode))
                  /\ UNCHANGED clusters
             ELSE IF storeErr
             THEN /\ Return(p, Done("Register", ErrStore))
                  /\ UNCHANGED clusters
             ELSE /\ Return(p, Done("Register", NoError))
                  /\ clusters' = [c \in DOMAIN clusters \cup {id} |->
                                    IF c = id THEN cluster ELSE clusters[c]]
    /\ UNCHANGED <<nextReservation, consumed, createVars, index>>

\* Register from the loop over the nodes on: the first node becomes the master,
\* every node is told to Join (failAt: the node whose Join fails, 0 for none),
\* then the cluster is registered in the catalog.
RegisterJoin(p, failAt, storeErr) ==
    /\ call[p].pc = "prepared"
    /\ failAt \in 0..Len(call[p].nodes)
    /\ LET id == call[p].clusterId
           nodes == [i \in DOMAIN call[p].nodes |->
                        IF i = 1 THEN [call[p].nodes[i] EXCEPT !.Master = TRUE]
                        ELSE call[p].nodes[i]]
           cluster == [NewCluster(id, 0, FALSE, FALSE, nodes) EXCEPT !.Size = call[p].size]
       IN /\ UNCHANGED dataNodes
          /\ IF failAt # 0
             THEN /\ Return(p, Done("Register", ErrMode))
                  /\ UNCHANGED clusters
             ELSE IF storeErr
             THEN /\ Return(p, Done("Register", ErrStore))
                  /\ UNCHANGED clusters
             ELSE /\ Return(p, Done("Register", NoError))
                  /\ clusters' = [c \in DOMAIN clusters \cup {id} |->
                                    IF c = id THEN cluster ELSE clusters[c]]
    /\ UNCHANGED <<nextReservation, consumed, createVars, index>>

\* RegisterNodesTo up to the return of prepareNodes, inside Save.
RegisterNodesToPrepare(p, clusterId, nodeAddresses, down) ==
    /\ Ready(p)
    /\ ~Locked(clusterId)
    /\ IF clusterId \notin DOMAIN clusters
       THEN Return(p, Done("RegisterNodesTo", ErrNotFound))
       ELSE LET cluster == clusters[clusterId]
                r == prepareNodes(clusters, nodeAddresses, cluster.Size, down)
            IN IF r.err # NoError
               THEN Return(p, Done("RegisterNodesTo", r.err))
               ELSE /\ \E order \in MapOrders(Range(nodeAddresses)) :
                          call' = [call EXCEPT ![p] =
                                      [op |-> "RegisterNodesTo", pc |-> "saving",
                                       clusterId |-> clusterId,
                                       masterNode |-> Master(cluster),
                                       nodes |-> [i \in DOMAIN order |-> NodeOf(order[i])]]]
                    /\ UNCHANGED last
    /\ UNCHANGED <<clusters, nextReservation, consumed, createVars, index, dataNodes>>

\* RegisterNodesTo from the loop over the new nodes on, to the return of Save.
\* Reading masterNode.Address of a cluster with no master panics before any Join;
\* Save persists on a clean return only.
RegisterNodesToJoin(p, failAt) ==
    /\ call[p].pc = "saving"
    /\ failAt \in 0..Len(call[p].nodes)
    /\ LET id == call[p].clusterId
           nodes == call[p].nodes
       IN IF nodes # <<>> /\ call[p].masterNode = NilNode
          THEN /\ Return(p, Done("RegisterNodesTo", Panic))
               /\ UNCHANGED <<clusters, dataNodes>>
          ELSE /\ UNCHANGED dataNodes
               /\ IF failAt # 0
                  THEN /\ Return(p, Done("RegisterNodesTo", ErrJoin))
                       /\ UNCHANGED clusters
                  ELSE /\ Return(p, Done("RegisterNodesTo", NoError))
                       /\ clusters' = [clusters EXCEPT ![id].Nodes = @ \o nodes]
    /\ UNCHANGED <<nextReservation, consumed, createVars, index>>

\* The hooks of UnRegisterNode, each given what the call it makes answers.
Hooks == {"sync", "leave", "mode"}

\* The pre-check hook: the error of health.SyncCluster, as it is.
SyncHook(syncErr) == syncErr

\* A leaving-node hook that reports success whatever Leave answers.
LeaveHookIgnoresAnswer(left) == NoError

\* The leaving-node hook: the node is told to Leave.
LeaveHook(left) == IF ~left THEN ErrMode ELSE NoError

\* The new-master hook: the node is told Mode(true).
NewMasterHook(promoted) == IF ~promoted THEN ErrMode ELSE NoError

\* Master election: the survivor of highest quality, the smallest node id among equals.
Elected(nodes) ==
    CHOOSE i \in DOMAIN nodes :
        \A j \in DOMAIN nodes :
            \/ nodes[i].Quality > nodes[j].Quality
            \/ nodes[i].Quality = nodes[j].Quality /\ IdBefore(nodes[i].Id, nodes[j].Id)
            \/ i = j

\* The node list with the node at position i promoted and moved to the front.
Promote(nodes, i) ==
    <<[nodes[i] EXCEPT !.Master = TRUE]>> \o SelectSeq(nodes, LAMBDA n : n.Id # nodes[i].Id)

\* UnRegisterNode: data.Clusters.UnRegisterNode with the three hooks.  The hooks
\* run in the order pre-check, leaving node, new master; the first that fails ends
\* the call and the catalog keeps the cluster as it was.  failing: the hooks whose
\* call to the data nodes does not succeed.
UnRegisterNode(p, nodeId, failing) ==
    /\ Ready(p)
    /\ IF ClusterIdOf(clusters, nodeId) = {}
       THEN /\ Return(p, Done("UnRegisterNode", ErrNotFound))
            /\ UNCHANGED <<clusters, dataNodes>>
       ELSE \E c \in ClusterIdOf(clusters, nodeId) :
            /\ ~Locked(c)
            /\ LET nodes == clusters[c].Nodes
                   deletingNode == nodes[CHOOSE i \in DOMAIN nodes : nodes[i].Id = nodeId]
                   rest == SelectSeq(nodes, LAMBDA n : n.Id # nodeId)
                   elect == deletingNode.Master /\ rest # <<>>
                   after == IF elect THEN Promote(rest, Elected(rest)) ELSE rest
                   syncErr == SyncHook(IF "sync" \in failing THEN ErrJoin ELSE NoError)
                   leaveErr == LeaveHook("leave" \notin failing)
                   err == IF syncErr # NoError THEN syncErr
                          ELSE IF leaveErr # NoError THEN leaveErr
                          ELSE IF elect THEN NewMasterHook("mode" \notin failing)
                          ELSE NoError
               IN /\ clusters' = [clusters EXCEPT ![c].Nodes = IF err = NoError THEN after ELSE nodes]
                  /\ UNCHANGED dataNodes
                  /\ Return(p, [op |-> "UnRegisterNode", err |-> err, clusterId |-> c,
                                nodeId |-> nodeId, failing |-> failing, elect |-> elect,
                                before |-> nodes])
    /\ UNCHANGED <<nextReservation, consumed, createVars, index>>

\* data.Index.Replace: the hashes listed for the cluster become exactly sha512HexList.
IndexReplace(idx, clusterId, sha512HexList) ==
    [h \in Hashes |-> IF h \in sha512HexList THEN idx[h] \cup {clusterId}
                      ELSE idx[h] \ {clusterId}]

\* UnRegisterCluster: the index entries of the cluster are dropped, its nodes are
\* wiped, the cluster leaves the catalog.
UnRegisterCluster(p, clusterId, replaceErr) ==
    /\ Ready(p)
    /\ ~Locked(clusterId)
    /\ IF clusterId \notin DOMAIN clusters
       THEN /\ Return(p, Done("UnRegisterCluster", ErrNotFound))
            /\ UNCHANGED <<clusters, index>>
       ELSE IF replaceErr
       THEN /\ Return(p, Done("UnRegisterCluster", ErrStore))
            /\ UNCHANGED <<clusters, index>>
       ELSE /\ Return(p, Done("UnRegisterCluster", NoError))
            /\ index' = IndexReplace(index, clusterId, {})
            /\ clusters' = [c \in DOMAIN clusters \ {clusterId} |-> clusters[c]]
    /\ UNCHANGED <<nextReservation, consumed, createVars, dataNodes>>

\* The manager after construction: no cluster, no node bound to a cluster.
InitRegister ==
    /\ clusters = <<>>
    /\ index = [h \in Hashes |-> {}]
    /\ dataNodes = <<>>
    /\ call = [p \in Callers |-> NoCall]
    /\ nextReservation = 0
    /\ consumed = {}
    /\ last = [op |-> "none"]
    /\ IdleCreate

NextRegister ==
    \E p \in Callers :
        \/ \E nodeAddresses \in AddressLists, down \in {{}, Addrs} :
              \/ RegisterPrepare(p, nodeAddresses, down)
              \/ \E clusterId \in ClusterIds :
                    RegisterNodesToPrepare(p, clusterId, nodeAddresses, down)
        \/ \E failAt \in 0..2 :
              \/ \E storeErr \in BOOLEAN : RegisterJoin(p, failAt, storeErr)
              \/ RegisterNodesToJoin(p, failAt)
        \/ \E nodeId \in NodeIds, failing \in {{}} \cup {{h} : h \in Hooks} :
              UnRegisterNode(p, nodeId, failing)
        \/ \E clusterId \in ClusterIds, replaceErr \in BOOLEAN :
              UnRegisterCluster(p, clusterId, replaceErr)

SpecRegister == InitRegister /\ [][NextRegister]_vars

\* ------------------------------------------------------- MoveCluster --

ErrNotAvailableForClusterAction == "NotAvailableForClusterAction"
ErrSnapshot == "Snapshot"
ErrSync == "Sync"

\* The most snapshots a master holds in the modelled runs.
MaxSnapshots == 2

\* The outcomes of one run of health.SyncCluster: done, the master's Join failed,
\* the master's SyncList failed.
SyncOutcomes == {"ok", "join", "list"}

\* health.SyncCluster(cluster, keepFrozen) on a cluster of a master and no slave:
\* the master joins, its SyncList replaces the index entries of the cluster,
\* paralyzed is cleared, and frozen too unless keepFrozen.  A failed SyncList
\* marks the cluster paralyzed.
SyncCluster(cls, idx, dns, clusterId, keepFrozen, outcome) ==
    CASE outcome = "join" -> [clusters |-> cls, index |-> idx, err |-> ErrJoin]
      [] outcome = "list" ->
            [clusters |-> [cls EXCEPT ![clusterId].Paralyzed = TRUE], index |-> idx,
             err |-> ErrPing]
      [] outcome = "ok" ->
            [clusters |-> [cls EXCEPT ![clusterId].Paralyzed = FALSE,
                                      ![clusterId].Frozen = IF keepFrozen THEN @ ELSE FALSE],
             index |-> IndexReplace(idx, clusterId,
                                    dns[Master(cls[clusterId]).Address].files),
             err |-> NoError]

\* data.Clusters.SetFreeze.
SetFreeze(cls, clusterId, frozen) == [cls EXCEPT ![clusterId].Frozen = frozen]

\* The hashes the index lists for a cluster.
IndexedUnder(idx, clusterId) == {h \in Hashes : clusterId \in idx[h]}

\* What a call notes of a cluster before it acts.
Before(clusterId) ==
    [used |-> clusters[clusterId].Used, frozen |-> clusters[clusterId].Frozen,
     available |-> Available(clusters[clusterId]), hashes |-> IndexedUnder(index, clusterId),
     files |-> dataNodes[Master(clusters[clusterId]).Address].files,
     snapshots |-> dataNodes[Master(clusters[clusterId]).Address].snapshots]

\* What a MoveCluster call leaves to look at: its arguments, the two clusters as
\* they were, the calls it made to the data nodes in their order, each with its
\* answer, the sides whose SyncCluster run it awaited, and what it returned.
MoveOutcome(source, target, before, log, synced, err) ==
    [op |-> "MoveCluster", err |-> err, source |-> source, target |-> target,
     before |-> before, log |-> log, synced |-> synced]

\* A MoveCluster that does not look at the target before it freezes it.
MoveFreezeSkipsTargetCheck(p, sourceClusterId, targetClusterId, freezeErr) ==
    /\ \A q \in Callers : Ready(q)
    /\ last.op = "none"
    /\ LET sourceCluster == clusters[sourceClusterId]
           targetCluster == clusters[targetClusterId]
           before == [source |-> Before(sourceClusterId), target |-> Before(targetClusterId)]
           frozenSource == SetFreeze(clusters, sourceClusterId, TRUE)
           frozenBoth == SetFreeze(frozenSource, targetClusterId, TRUE)
           Refuse(err) ==
               Return(p, MoveOutcome(sourceClusterId, targetClusterId, before, <<>>, {}, err))
       IN IF sourceCluster.Used > 0 /\ sourceCluster.Frozen
          THEN Refuse(ErrNotAvailableForClusterAction) /\ UNCHANGED clusters
          ELSE IF freezeErr = "source"
          THEN Refuse(ErrStore) /\ UNCHANGED clusters
          ELSE IF freezeErr = "target"
          THEN Refuse(ErrStore) /\ clusters' = frozenSource
          ELSE IF sourceCluster.Used > Available(targetCluster)
          THEN Refuse(ErrNoSpace) /\ clusters' = frozenBoth
          ELSE /\ call' = [call EXCEPT ![p] =
                              [op |-> "MoveCluster", pc |-> "frozen",
                               source |-> sourceClusterId, target |-> targetClusterId,
                               sourceMaster |-> Master(sourceCluster).Address,
                               targetMaster |-> Master(targetCluster).Address,
                               before |-> before]]
               /\ clusters' = frozenBoth
               /\ UNCHANGED last
    /\ UNCHANGED <<nextReservation, consumed, createVars, index, dataNodes>>

\* MoveCluster from the two Get calls to the NoSpace check.  freezeErr names the
\* SetFreeze call that the store fails, if any.  A run follows one call, made on
\* the catalog the initial state draws.
MoveFreeze(p, sourceClusterId, targetClusterId, freezeErr) ==
    /\ \A q \in Callers : Ready(q)
    /\ last.op = "none"
    /\ LET sourceCluster == clusters[sourceClusterId]
           targetCluster == clusters[targetClusterId]
           before == [source |-> Before(sourceClusterId), target |-> Before(targetClusterId)]
           frozenSource == SetFreeze(clusters, sourceClusterId, TRUE)
           frozenBoth == SetFreeze(frozenSource, targetClusterId, TRUE)
           Refuse(err) ==
               Return(p, MoveOutcome(sourceClusterId, targetClusterId, before, <<>>, {}, err))
       IN IF sourceCluster.Used > 0 /\ sourceCluster.Frozen
          THEN Refuse(ErrNotAvailableForClusterAction) /\ UNCHANGED clusters
          ELSE IF freezeErr = "source"
          THEN Refuse(ErrStore) /\ UNCHANGED clusters
          ELSE IF targetCluster.Used > 0 /\ targetCluster.Frozen
          THEN Refuse(ErrNotAvailableForClusterAction) /\ clusters' = frozenSource
          ELSE IF freezeErr = "target"
          THEN Refuse(ErrStore) /\ clusters' = frozenSource
          ELSE IF sourceCluster.Used > Available(targetCluster)
          THEN Refuse(ErrNoSpace) /\ clusters' = frozenBoth
          ELSE /\ call' = [call EXCEPT ![p] =
                              [op |-> "MoveCluster", pc |-> "frozen",
                               source |-> sourceClusterId, target |-> targetClusterId,
                               sourceMaster |-> Master(sourceCluster).Address,
                               targetMaster |-> Master(targetCluster).Address,
                               before |-> before]]
               /\ clusters' = frozenBoth
               /\ UNCHANGED last
    /\ UNCHANGED <<nextReservation, consumed, createVars, index, dataNodes>>

\* The log of the SnapshotDelete calls that succeed, for the indexes from down to upto.
RECURSIVE SnapshotDeletes(_, _)
SnapshotDeletes(from, upto) ==
    IF from < upto THEN <<>>
    ELSE <<[op |-> "SnapshotDelete", arg |-> from, ok |-> TRUE]>>
         \o SnapshotDeletes(from - 1, upto)

\* A snapshot loop that goes on after a SnapshotDelete that fails.
SnapshotLoopGoesOn(snapshots, snapshotFail) ==
    IF snapshotFail = -1
    THEN [log |-> SnapshotDeletes(snapshots - 1, 0), err |-> NoError, left |-> 0]
    ELSE [log |-> SnapshotDeletes(snapshots - 1, snapshotFail + 1)
                  \o <<[op |-> "SnapshotDelete", arg |-> snapshotFail, ok |-> FALSE]>>
                  \o SnapshotDeletes(snapshotFail - 1, 0),
          err |-> NoError, left |-> 1]

\* The loop over the snapshots of the source master, highest index first; the
\* SnapshotDelete of index snapshotFail fails (-1: none does) and ends the call.
SnapshotLoop(snapshots, snapshotFail) ==
    IF snapshotFail = -1
    THEN [log |-> SnapshotDeletes(snapshots - 1, 0), err |-> NoError, left |-> 0]
    ELSE [log |-> SnapshotDeletes(snapshots - 1, snapshotFail + 1)
                  \o <<[op |-> "SnapshotDelete", arg |-> snapshotFail, ok |-> FALSE]>>,
          err |-> ErrSnapshot, left |-> snapshotFail + 1]

\* A SyncMove loop that ends at the first SyncMove that fails.
SyncMovesStopAtFailure(order, moveFail) ==
    LET fails == {i \in DOMAIN order : order[i] \in moveFail}
        upto == IF fails = {} THEN Len(order) ELSE CHOOSE i \in fails : \A j \in fails : i <= j
    IN [log |-> [i \in 1..upto |->
                   [op |-> "SyncMove", arg |-> order[i], ok |-> order[i] \notin moveFail]],
        moved |-> {order[i] : i \in 1..upto} \ moveFail,
        syncErr |-> IF moveFail = {} THEN NoError ELSE ErrSync]

\* The loop over the FileItems of the SyncList, in the order the map is walked:
\* SyncMove for each hash; the hashes in moveFail fail, which is noted and no more.
SyncMoves(order, moveFail) ==
    [log |-> [i \in DOMAIN order |->
                [op |-> "SyncMove", arg |-> order[i], ok |-> order[i] \notin moveFail]],
     moved |-> Range(order) \ moveFail,
     syncErr |-> IF moveFail = {} THEN NoError ELSE ErrSync]

\* MoveCluster from the SyncList of the source master to the last SyncMove.
\* listErr: SyncList fails; snapshotFail: the index whose SnapshotDelete fails, or
\* -1; moveFail: the hashes whose SyncMove fails.  A hash that SyncMove moves
\* leaves the source master for the target master.
MoveTransfer(p, listErr, snapshotFail, moveFail) ==
    /\ call[p].pc = "frozen"
    /\ LET c == call[p]
           smdn == dataNodes[c.sourceMaster]
           FileItems == smdn.files
           Outcome(log, err) ==
               Return(p, MoveOutcome(c.source, c.target, c.before, log, {}, err))
           dropped == SnapshotLoop(smdn.snapshots, snapshotFail)
       IN /\ snapshotFail \in -1 .. smdn.snapshots - 1
          /\ moveFail \subseteq FileItems
          /\ IF listErr
             THEN /\ Outcome(<<[op |-> "SyncList", arg |-> 0, ok |-> FALSE]>>, ErrPing)
                  /\ UNCHANGED dataNodes
             ELSE IF dropped.err # NoError
             THEN /\ Outcome(<<[op |-> "SyncList", arg |-> 0, ok |-> TRUE]>> \o dropped.log,
                             dropped.err)
                  /\ dataNodes' = [dataNodes EXCEPT ![c.sourceMaster].snapshots = dropped.left]
             ELSE \E order \in MapOrders(FileItems) :
                  LET moves == SyncMoves(order, moveFail)
                      emptied == [dataNodes EXCEPT ![c.sourceMaster].snapshots = dropped.left,
                                                   ![c.sourceMaster].files = @ \ moves.moved]
                  IN /\ dataNodes' = [emptied EXCEPT ![c.targetMaster].files = @ \cup moves.moved]
                     /\ call' = [call EXCEPT ![p] =
                                    [c EXCEPT !.pc = "syncing"] @@
                                    [syncErr |-> moves.syncErr,
                                     pending |-> {"source", "target"},
                                     log |-> <<[op |-> "SyncList", arg |-> 0, ok |-> TRUE]>>
                                             \o dropped.log \o moves.log]]
                     /\ UNCHANGED last
    /\ UNCHANGED <<clusters, nextReservation, consumed, createVars, index>>

\* One of the two tasks MoveCluster starts: health.SyncCluster on the source,
\* which stays frozen, or on the target; the error of the run is dropped.
MoveSyncCluster(p, side, outcome) ==
    /\ call[p].pc = "syncing"
    /\ side \in call[p].pending
    /\ LET c == call[p]
           r == SyncCluster(clusters, index, dataNodes,
                            IF side = "source" THEN c.source ELSE c.target,
                            side = "source", outcome)
       IN /\ clusters' = r.clusters
          /\ index' = r.index
          /\ call' = [call EXCEPT ![p].pending = @ \ {side}]
    /\ UNCHANGED <<nextReservation, consumed, last, createVars, dataNodes>>

\* MoveCluster after wg.Wait: the accumulated SyncMove error is returned.
MoveReturn(p) ==
    /\ call[p].pc = "syncing"
    /\ call[p].pending = {}
    /\ Return(p, MoveOutcome(call[p].source, call[p].target, call[p].before, call[p].log,
                             {"source", "target"} \ call[p].pending, call[p].syncErr))
    /\ UNCHANGED <<clusters, nextReservation, consumed, createVars, index, dataNodes>>

\* Two clusters of one master each; the index lists what the masters hold.
InitMove ==
    /\ \E u1 \in {0, 2 * HalfBlock}, u2 \in {0, HalfBlock, 3 * HalfBlock},
          f \in [ClusterIds -> BOOLEAN] :
          clusters = [c \in ClusterIds |->
                        NewCluster(c, IF c = "c1" THEN u1 ELSE u2, f[c], FALSE,
                                   <<MasterNode(c)>>)]
    /\ \E files1 \in {{}, {"h1"}, Hashes}, files2 \in {{}, {"h2"}}, n \in 0..MaxSnapshots :
          /\ dataNodes = [a \in Addresses |->
                            IF a = "a1" THEN [files |-> files1, snapshots |-> n]
                            ELSE [files |-> files2, snapshots |-> 0]]
          /\ index = [h \in Hashes |->
                        {c \in ClusterIds : h \in IF c = "c1" THEN files1 ELSE files2}]
    /\ call = [p \in Callers |-> NoCall]
    /\ nextReservation = 0
    /\ consumed = {}
    /\ last = [op |-> "none"]
    /\ IdleCreate

NextMove ==
    \E p \in Callers :
        \/ \E s, t \in ClusterIds, freezeErr \in {"none", "source", "target"} :
              MoveFreeze(p, s, t, freezeErr)
        \/ \E listErr \in BOOLEAN, snapshotFail \in -1 .. MaxSnapshots - 1,
              moveFail \in SUBSET Hashes :
              MoveTransfer(p, listErr, snapshotFail, moveFail)
        \/ \E side \in {"source", "target"}, outcome \in SyncOutcomes :
              MoveSyncCluster(p, side, outcome)
        \/ MoveReturn(p)

SpecMove == InitMove /\ [][NextMove]_vars

\* ------------------------------------------------------ syncClusters --

ErrSyncing == "syncing can not continue because of data node errors"

\* common.Cluster.Slaves: the nodes that are not the master.
Slaves(cl) == SelectSeq(cl.Nodes, LAMBDA n : ~n.Master)

\* The stages of the task started for a slave: before its Join, before its
\* SyncFull, and the three ends.
Finished == {"joinFailed", "syncFailed", "synced"}

\* The ways in: SyncClusters hands over every cluster, SyncCluster one.
SyncQueues == {ClusterOrder} \cup {<<c>> : c \in ClusterIds}

\* SyncClusters or SyncCluster up to the call of syncClusters.  A run follows one
\* call, made on the catalog the initial state draws.
SyncStart(p, queue) ==
    /\ \A q \in Callers : call[q].op = "none"
    /\ call' = [call EXCEPT ![p] =
                   [op |-> "syncClusters", pc |-> "loop", given |-> queue, clusters |-> queue,
                    tasks |-> <<>>, hasError |-> FALSE, err |-> NoError]]
    /\ UNCHANGED <<catalogVars, createVars, index, dataNodes>>

\* One pass of the loop of syncClusters over the cluster at the head of the list:
\* the master's Join, the shortcut for a cluster with no slave, SyncList,
\* index.Replace, then one task per slave.  joined, listed: what the master
\* answers; replaceErr: the index fails.
SyncLoop(p, joined, listed, replaceErr) ==
    /\ call[p].op = "syncClusters"
    /\ call[p].pc = "loop"
    /\ call[p].clusters # <<>>
    /\ LET c == call[p]
           cluster == clusters[Head(c.clusters)]
           masterNode == Master(cluster)
           slaveNodes == Slaves(cluster)
           requeued == Tail(c.clusters) \o <<cluster.Id>>
       IN IF ~joined
          THEN /\ call' = [call EXCEPT ![p].pc = "returned", ![p].err = ErrJoin]
               /\ UNCHANGED index
          ELSE IF slaveNodes = <<>>
          THEN /\ call' = [call EXCEPT ![p].clusters = Tail(@)]
               /\ UNCHANGED index
          ELSE IF ~listed
          THEN /\ call' = [call EXCEPT ![p].clusters = requeued]
               /\ UNCHANGED index
          ELSE IF replaceErr
          THEN /\ call' = [call EXCEPT ![p].clusters = requeued]
               /\ UNCHANGED index
          ELSE /\ index' = IndexReplace(index, cluster.Id, dataNodes[masterNode.Address].files)
               /\ call' = [call EXCEPT
                              ![p].clusters = Tail(@),
                              ![p].tasks = @ @@ [a \in {slaveNodes[i].Address :
                                                         i \in DOMAIN slaveNodes} |->
                                                    [st |-> "join",
                                                     master |-> masterNode.Address]]]
    /\ UNCHANGED <<catalogVars, createVars, dataNodes>>

\* The task of a slave, first half: Join with the master's address.
SlaveJoin(p, slave, joined) ==
    /\ call[p].op = "syncClusters"
    /\ slave \in DOMAIN call[p].tasks
    /\ call[p].tasks[slave].st = "join"
    /\ call' = IF joined
               THEN [call EXCEPT ![p].tasks[slave].st = "full"]
               ELSE [call EXCEPT ![p].tasks[slave].st = "joinFailed", ![p].hasError = TRUE]
    /\ UNCHANGED <<catalogVars, createVars, index, dataNodes>>

\* The task of a slave, second half: SyncFull pulls what the master holds.
SlaveSyncFull(p, slave, pulled) ==
    /\ call[p].op = "syncClusters"
    /\ slave \in DOMAIN call[p].tasks
    /\ call[p].tasks[slave].st = "full"
    /\ IF pulled
       THEN /\ call' = [call EXCEPT ![p].tasks[slave].st = "synced"]
            /\ dataNodes' = [dataNodes EXCEPT
                                ![slave].files = dataNodes[call[p].tasks[slave].master].files]
       ELSE /\ call' = [call EXCEPT ![p].tasks[slave].st = "syncFailed", ![p].hasError = TRUE]
            /\ UNCHANGED dataNodes
    /\ UNCHANGED <<catalogVars, createVars, index>>

\* syncClusters after the loop: wg.Wait, then the error if a task set hasError.
SyncWait(p) ==
    /\ call[p].op = "syncClusters"
    /\ call[p].pc = "loop"
    /\ call[p].clusters = <<>>
    /\ \A a \in DOMAIN call[p].tasks : call[p].tasks[a].st \in Finished
    /\ call' = [call EXCEPT ![p].pc = "returned",
                            ![p].err = IF call[p].hasError THEN ErrSyncing ELSE NoError]
    /\ UNCHANGED <<catalogVars, createVars, index, dataNodes>>

\* Two clusters, each of a master with or without a slave; the index may be out
\* of date with what the masters hold.
InitSync ==
    /\ \E n1 \in NodeLists("c1") \ {<<>>}, n2 \in NodeLists("c2") \ {<<>>} :
          clusters = [c \in ClusterIds |->
                        NewCluster(c, 0, FALSE, FALSE, IF c = "c1" THEN n1 ELSE n2)]
    /\ \E files1 \in {{"h1"}, Hashes}, files2 \in {{}, {"h2"}} :
          dataNodes = [a \in {"a1", "a2", "a3", "a4"} |->
                         [files |-> CASE a = "a1" -> files1 [] a = "a2" -> files2
                                      [] OTHER -> {},
                          snapshots |-> 0]]
    /\ index \in [Hashes -> SUBSET ClusterIds]
    /\ call = [p \in Callers |-> NoCall]
    /\ nextReservation = 0
    /\ consumed = {}
    /\ last = [op |-> "none"]
    /\ IdleCreate

NextSync ==
    \E p \in Callers :
        \/ \E queue \in SyncQueues : SyncStart(p, queue)
        \/ \E joined, listed, replaceErr \in BOOLEAN : SyncLoop(p, joined, listed, replaceErr)
        \/ \E slave \in {"a3", "a4"}, answer \in BOOLEAN :
              \/ SlaveJoin(p, slave, answer)
              \/ SlaveSyncFull(p, slave, answer)
        \/ SyncWait(p)

SpecSync == InitSync /\ [][NextSync]_vars

\* The run is scheduled: a step that can be taken is taken in the end.
SpecSyncFair == SpecSync /\ WF_vars(NextSync)

\* ------------------------------------------------ the manager's router --

\* The X-Options headers of the model: the strings of at most MaxOptLen characters
\* over a letter and the comma.
MaxOptLen == 3
OptionChars == {"a", ","}
OptionStrings == UNION {[1..n -> OptionChars] : n \in 0..MaxOptLen}

\* The actions validateGetAction accepts, and the X-Action headers of the model.
KnownActions == {"sync", "check", "move", "balance", "clusters", "find"}
XActions == KnownActions \cup {"", "delete"}

validateGetAction(action) == action \in KnownActions

\* strings.Index(options, ","): the offset of the first comma, -1 without one.
CommaIndex(options) ==
    IF \E i \in 1..Len(options) : options[i] = ","
    THEN (CHOOSE i \in 1..Len(options) :
              /\ options[i] = ","
              /\ \A j \in 1..(i - 1) : options[j] # ",") - 1
    ELSE -1

describeMoveOptions(options) ==
    LET commaIdx == CommaIndex(options)
        sourceClusterId == IF commaIdx > -1 THEN SubSeq(options, 1, commaIdx) ELSE <<>>
        targetClusterId ==
            IF commaIdx > -1 THEN SubSeq(options, commaIdx + 2, Len(options)) ELSE <<>>
    IN  [source |-> sourceClusterId, target |-> targetClusterId,
         valid |-> Len(sourceClusterId) > 0 /\ Len(targetClusterId) > 0]

\* The loop of describeBalanceOptions: the ids between the commas, empty ones skipped.
RECURSIVE BalanceIds(_, _)
BalanceIds(options, clusterIds) ==
    IF Len(options) = 0 THEN clusterIds
    ELSE LET commaIdx == CommaIndex(options)
             clusterId == SubSeq(options, 1, commaIdx)
         IN  IF commaIdx = -1 THEN Append(clusterIds, options)
             ELSE BalanceIds(SubSeq(options, commaIdx + 2, Len(options)),
                             IF Len(clusterId) > 0 THEN Append(clusterIds, clusterId)
                             ELSE clusterIds)

describeBalanceOptions(options) ==
    LET clusterIds == BalanceIds(options, <<>>)
    IN  IF Len(clusterIds) = 1 THEN [clusterIds |-> <<>>, valid |-> FALSE]
        ELSE [clusterIds |-> clusterIds, valid |-> TRUE]

\* The errors the manager's operations hand to the router.
ManagerErrors ==
    {NoError, ErrNotFound, ErrNotAvailableForClusterAction, ErrNoSpace,
     ErrNoAvailableClusterNode, ErrSync, ErrPing}

\* The answer of a handler: the status written (200 when WriteHeader is not called)
\* and the error the manager gave, "" when the manager was not called.
Answer(status, err) == [status |-> status, err |-> err]

handleSync(options, managerErr) ==
    LET err == IF Len(options) = 0
               THEN (IF managerErr # NoError THEN ErrSync ELSE NoError)
               ELSE managerErr
    IN  IF err = NoError THEN Answer(200, err)
        ELSE IF err = ErrNotFound THEN Answer(404, err)
        ELSE Answer(500, err)

handleCheckConsistency(managerErr) ==
    IF managerErr = NoError THEN Answer(200, managerErr)
    ELSE IF managerErr = ErrNotFound THEN Answer(404, managerErr)
    ELSE Answer(500, managerErr)

handleMove(options, managerErr) ==
    IF ~describeMoveOptions(options).valid THEN Answer(422, "")
    ELSE IF managerErr = NoError THEN Answer(200, managerErr)
    ELSE IF managerErr = ErrNotFound THEN Answer(404, managerErr)
    ELSE IF managerErr = ErrNotAvailableForClusterAction THEN Answer(503, managerErr)
    ELSE IF managerErr = ErrNoSpace THEN Answer(507, managerErr)
    ELSE Answer(500, managerErr)

handleBalance(options, managerErr) ==
    IF ~describeBalanceOptions(options).valid THEN Answer(422, "")
    ELSE IF managerErr = NoError THEN Answer(200, managerErr)
    ELSE IF managerErr = ErrNotFound THEN Answer(404, managerErr)
    ELSE IF managerErr = ErrNotAvailableForClusterAction THEN Answer(503, managerErr)
    ELSE Answer(500, managerErr)

handleClusters(options, managerErr) ==
    IF managerErr = NoError THEN Answer(200, managerErr)
    ELSE IF managerErr = ErrNotFound THEN Answer(404, managerErr)
    ELSE Answer(500, managerErr)

handleFind(options, managerErr) ==
    IF managerErr = NoError THEN Answer(200, managerErr)
    ELSE IF managerErr = ErrNotFound THEN Answer(404, managerErr)
    ELSE IF managerErr = ErrNoAvailableClusterNode THEN Answer(503, managerErr)
    ELSE Answer(500, managerErr)

\* The answer of handleGet to a request with these headers.
GetAnswer(action, options, managerErr) ==
    IF ~validateGetAction(action) THEN Answer(422, "")
    ELSE IF action = "sync" THEN handleSync(options, managerErr)
    ELSE IF action = "check" THEN handleCheckConsistency(managerErr)
    ELSE IF action = "move" THEN handleMove(options, managerErr)
    ELSE IF action = "balance" THEN handleBalance(options, managerErr)
    ELSE IF action = "clusters" THEN handleClusters(options, managerErr)
    ELSE IF action = "find" THEN handleFind(options, managerErr)
    ELSE Answer(406, "")

\* One GET request served.
handleGet(action, options, managerErr) ==
    /\ last' = [op |-> "handleGet", action |-> action, options |-> options,
                answer |-> GetAnswer(action, options, managerErr)]
    /\ UNCHANGED <<clusters, nextReservation, consumed, createVars, opVars>>

InitRouter ==
    /\ clusters = [c \in ClusterIds |-> NewCluster(c, 0, FALSE, FALSE, <<MasterNode(c)>>)]
    /\ nextReservation = 0
    /\ consumed = {}
    /\ last = [op |-> "none"]
    /\ IdleCreate
    /\ IdleOps

NextRouter ==
    \E action \in XActions, options \in OptionStrings, managerErr \in ManagerErrors :
        handleGet(action, options, managerErr)

SpecRouter == InitRouter /\ [][NextRouter]_vars

\* ------------------------------------------ properties of the catalog --

TotalAvailable(cls) ==
    SumOver([c \in ClusterIds |-> Available(cls[c])],
            {c \in ClusterIds : ~cls[c].Frozen /\ ~cls[c].Paralyzed})

\* The sizes of the slots of a reservation map that name cluster c.
RECURSIVE SlotSum(_, _)
SlotSum(slots, c) ==
    IF slots = <<>> THEN 0
    ELSE (IF Head(slots).Id = c THEN Head(slots).Size ELSE 0) + SlotSum(Tail(slots), c)

\* C1: in every reachable catalog state every cluster has
\* used + sum of its reservations <= size.
CapacityInvariant ==
    \A c \in ClusterIds : clusters[c].Used + Reserved(clusters[c]) <= clusters[c].Size

\* C2: a Commit of an id that Reserve handed out raises used of every cluster by the
\* usage map's entry for it (0 when absent) and leaves no cluster with an entry for the id.
CommitAddsUsageAndDropsReservation ==
    (last.op = "Commit" /\ \E i \in 1..nextReservation : ReservationOrder[i] = last.id) =>
        \A c \in ClusterIds :
            /\ clusters[c].Used =
                 last.before[c].Used + (IF c \in DOMAIN last.usage THEN last.usage[c] ELSE 0)
            /\ last.id \notin DOMAIN clusters[c].Reservations

\* A Commit of a reservation held by a cluster the usage map does not name, with a
\* usage above zero for another cluster.
CommitWitness ==
    /\ last.op = "Commit"
    /\ \E c \in ClusterIds :
          /\ c \notin DOMAIN last.usage
          /\ last.id \in DOMAIN last.before[c].Reservations
    /\ \E c \in DOMAIN last.usage : last.usage[c] > 0

\* C3: Discard removes the id's entry from every cluster and changes nothing else.
DiscardFrame ==
    last.op = "Discard" =>
        \A c \in ClusterIds :
            /\ last.id \notin DOMAIN clusters[c].Reservations
            /\ DOMAIN clusters[c].Reservations = (DOMAIN last.before[c].Reservations) \ {last.id}
            /\ \A r \in DOMAIN clusters[c].Reservations :
                  clusters[c].Reservations[r] = last.before[c].Reservations[r]
            /\ clusters[c].Used = last.before[c].Used
            /\ clusters[c].Size = last.before[c].Size
            /\ clusters[c].Frozen = last.before[c].Frozen
            /\ clusters[c].Paralyzed = last.before[c].Paralyzed
            /\ clusters[c].Nodes = last.before[c].Nodes

\* A Discard of a held reservation while another reservation is held too.
DiscardWitness ==
    /\ last.op = "Discard"
    /\ \E c \in ClusterIds : last.id \in DOMAIN last.before[c].Reservations
    /\ \E c \in ClusterIds : DOMAIN clusters[c].Reservations # {}

\* C4: a Commit of an id that an earlier Commit or Discard already consumed changes
\* the used value of no cluster.
ConsumedAtMostOnce ==
    (last.op = "Commit" /\ last.again) =>
        \A c \in ClusterIds : clusters[c].Used = last.before[c].Used

\* C5: Reserve fails with NoSpace whenever the eligible clusters' total Available is
\* below the size asked for, and a failed Reserve leaves the catalog as it was.
ReserveNoSpace ==
    last.op = "Reserve" =>
        /\ (TotalAvailable(last.before) < last.size => last.err = ErrNoSpace)
        /\ (last.err # NoError => clusters = last.before)

\* A Reserve refused although some eligible cluster had room for part of the size.
ReserveNoSpaceWitness ==
    /\ last.op = "Reserve"
    /\ last.err = ErrNoSpace
    /\ TotalAvailable(last.before) > 0

\* C6: after a successful Reserve the slot sizes sum to the size asked for, no slot is
\* above blockSize, used is unchanged everywhere, and each cluster's entry under the
\* new id is the sum of its slots (no entry for a cluster without a slot).
ReserveSuccess ==
    (last.op = "Reserve" /\ last.err = NoError) =>
        /\ SumOver([c \in ClusterIds |-> SlotSum(last.slots, c)], ClusterIds) = last.size
        /\ \A i \in 1..Len(last.slots) :
              /\ last.slots[i].Size <= blockSize
              /\ last.slots[i].Id \in ClusterIds
        /\ \A c \in ClusterIds :
              /\ clusters[c].Used = last.before[c].Used
              /\ (SlotSum(last.slots, c) = 0 => last.id \notin DOMAIN clusters[c].Reservations)
              /\ (SlotSum(last.slots, c) > 0 =>
                    /\ last.id \in DOMAIN clusters[c].Reservations
                    /\ clusters[c].Reservations[last.id] = SlotSum(last.slots, c))

\* A successful Reserve spread over both clusters, one of them with two slots.
ReserveSuccessWitness ==
    /\ last.op = "Reserve"
    /\ last.err = NoError
    /\ Len(last.slots) >= 3
    /\ \A c \in ClusterIds : SlotSum(last.slots, c) > 0

\* ----------------------------------------- properties of the pipeline --

\* The chunks an upload task of this write stored: its Create returned exists = false.
StoredByWrite ==
    {<<task[t].address, task[t].hash>> :
        t \in {u \in DOMAIN task : task[u].created /\ ~task[u].exists}}

\* C7: once process has returned, either it returned one chunk per slot, of the
\* reserved total, or it returned an error and no chunk an upload task of this write
\* stored is on a data node.
AllOrNothing ==
    pc = "done" =>
        \/ /\ ret.err = NoError
           /\ Len(ret.chunks) = Len(reservationMap)
           /\ {ret.chunks[i].Sequence : i \in 1..Len(ret.chunks)}
                = {reservationMap[i].Sequence : i \in 1..Len(reservationMap)}
           /\ ChunkBytes(ret.chunks) = SizeOfSlots(reservationMap, Len(reservationMap))
        \/ /\ ret.err # NoError
           /\ StoredByWrite \cap stored = {}

\* C8: on success the returned chunks are in ascending sequence order.
SortedOnSuccess ==
    (pc = "done" /\ ret.err = NoError) =>
        \A i, j \in 1..Len(ret.chunks) :
            i < j => ret.chunks[i].Sequence < ret.chunks[j].Sequence

\* C9: on success the usage of every cluster is the sum of the sizes of the chunks
\* whose Create went to that cluster and returned exists = false.
DedupAccounting ==
    (pc = "done" /\ ret.err = NoError) =>
        \A c \in ClusterIds :
            (IF c \in DOMAIN ret.usage THEN ret.usage[c] ELSE 0)
              = SumOver([t \in DOMAIN task |-> reservationMap[t].Size],
                        {t \in DOMAIN task : task[t].clusterId = c /\ ~task[t].exists})

\* A success with a chunk that existed and a chunk that did not, the tasks having
\* finished against the slot order.
DedupWitness ==
    /\ pc = "done"
    /\ ret.err = NoError
    /\ \E t, u \in DOMAIN task : task[t].exists /\ ~task[u].exists
    /\ Len(ret.chunks) = 2
    /\ ret.chunks[1].Sequence > ret.chunks[2].Sequence

\* What upload makes of the lookup's answer: the fallback to the slot's own cluster
\* and address on NoAvailableActionNode, without failing the pipeline; on any other
\* error the pipeline is failed and the task issues no Create.
UploadOnLookup(t) ==
    /\ task[t].findErr = ErrNoAvailableActionNode =>
          /\ task[t].clusterId = reservationMap[t].Id
          /\ task[t].address = reservationMap[t].Address
          /\ task[t].blame # "find"
          /\ task[t].st # "find"
    /\ task[t].findErr \notin {"", NoError, ErrNoAvailableActionNode} =>
          /\ failed
          /\ task[t].blame = "find"
          /\ task[t].st = "done"
          /\ ~task[t].created

Looked(t) == task[t].findErr # ""

ProcessBarrier ==
    pc = "done" => \A t \in DOMAIN task : task[t].st \in {"idle", "done"}

\* --------------------------------------------------- properties of Find --

\* The first cluster, in the catalog's order, that the index lists for the hash.
Selected(sha512Hex) ==
    LET hits == {i \in 1..Len(ClusterOrder) : ClusterOrder[i] \in index[sha512Hex]}
    IN ClusterOrder[CHOOSE i \in hits : \A j \in hits : i <= j]

\* C12: for every map type, when the cluster the index selects for the hash is
\* paralyzed, Find returns NoAvailableClusterNode and neither a cluster id nor an
\* address; a Find that succeeds names a cluster that is not paralyzed.
FindRefusesParalyzed ==
    \A p \in Callers :
        (call[p].op = "Find" /\ ~call[p].getAllErr) =>
            /\ (index[call[p].hash] # {} /\ clusters[Selected(call[p].hash)].Paralyzed) =>
                  call[p].res = FindResult("", "", ErrNoAvailableClusterNode)
            /\ call[p].res.err = NoError => ~clusters[call[p].res.clusterId].Paralyzed

\* A read of a hash whose selected cluster is paralyzed and has nodes, refused.
FindParalyzedWitness ==
    \E p \in Callers :
        /\ call[p].op = "Find"
        /\ call[p].mapType = MT_Read
        /\ ~call[p].getAllErr
        /\ index[call[p].hash] # {}
        /\ clusters[Selected(call[p].hash)].Paralyzed
        /\ clusters[Selected(call[p].hash)].Nodes # <<>>
        /\ call[p].res.err = ErrNoAvailableClusterNode

\* ------------------------------------------ properties of registration --

\* C13: after any sequence of Register, RegisterNodesTo, UnRegisterNode and
\* UnRegisterCluster calls, failed ones included, every cluster of the catalog
\* that has a node has exactly one node with master = true.
SingleMaster ==
    \A c \in DOMAIN clusters :
        clusters[c].Nodes # <<>> =>
            Cardinality({i \in DOMAIN clusters[c].Nodes : clusters[c].Nodes[i].Master}) = 1

\* The master of a cluster of two nodes was unregistered and the survivor promoted.
SingleMasterWitness ==
    /\ last.op = "UnRegisterNode"
    /\ last.err = NoError
    /\ last.elect
    /\ Len(last.before) = 2
    /\ Len(clusters[last.clusterId].Nodes) = 1

\* C14: under any interleaving of concurrent Register and RegisterNodesTo calls no
\* node id is listed in two clusters of the catalog or twice in one cluster.
NodeIdUnique ==
    \A n \in NodeIds :
        /\ Cardinality(ClusterIdOf(clusters, n)) <= 1
        /\ \A c \in DOMAIN clusters :
              Cardinality({i \in DOMAIN clusters[c].Nodes : clusters[c].Nodes[i].Id = n}) <= 1

\* Which hook of an UnRegisterNode call failed, if any.
HookFailed(c) ==
    \/ "sync" \in c.failing
    \/ "leave" \in c.failing
    \/ c.elect /\ "mode" \in c.failing

\* C15: when the pre-check hook, the leaving-node hook or the new-master hook of
\* UnRegisterNode fails, the call returns an error and the cluster's node list,
\* members and master flags, is as before the call (every change of the catalog
\* is recorded as the last call, so the catalog is still the one the call left).
UnRegisterNodeAtomic ==
    (last.op = "UnRegisterNode" /\ last.err # ErrNotFound /\ HookFailed(last)) =>
        /\ last.err # NoError
        /\ clusters[last.clusterId].Nodes = last.before
        /\ \E i \in DOMAIN last.before : last.before[i].Id = last.nodeId

\* The master was to be removed, Leave succeeded, Mode(true) on the survivor failed.
UnRegisterNodeWitness ==
    /\ last.op = "UnRegisterNode"
    /\ last.err = ErrMode
    /\ last.failing = {"mode"}
    /\ last.elect
    /\ Len(last.before) = 2
    /\ clusters[last.clusterId].Nodes = last.before

\* ------------------------------------------- properties of MoveCluster --

\* A cluster that was used and already frozen when the call was made.
UsedAndFrozen(b) == b.used > 0 /\ b.frozen

\* The call was refused before it reached a data node.
Refusals == {ErrNotAvailableForClusterAction, ErrNoSpace}

MoveSuccess ==
    (last.op = "MoveCluster" /\ last.err = NoError /\ last.source # last.target) =>
        /\ clusters[last.source].Used = 0
        /\ clusters[last.target].Used = last.before.source.used + last.before.target.used
        /\ \A h \in last.before.source.hashes :
              IndexFind(<<last.source, last.target>>, index, h).clusterId = last.target
        /\ ~clusters[last.target].Frozen
        /\ clusters[last.source].Frozen

\* ------------------------------------------ properties of syncClusters --

\* The run of syncClusters has returned.
Returned(p) == call[p].op = "syncClusters" /\ call[p].pc = "returned"

\* C18: after a sync run over a cluster returns without error, the hashes the
\* index lists for the cluster are the hashes of its master's SyncList, also for
\* a cluster of a master and no slave.
SyncIndexMatches ==
    \A p \in Callers :
        (Returned(p) /\ call[p].err = NoError) =>
            \A c \in Range(call[p].given) :
                IndexedUnder(index, c) = dataNodes[Master(clusters[c]).Address].files

\* C19: a sync run terminates, whatever the master's SyncList and index.Replace
\* answer on each attempt.
SyncTerminates == <>(\E p \in Callers : Returned(p))

\* The slaves of the clusters a run was given.
SlavesOf(queue) ==
    {n.Address : n \in UNION {Range(Slaves(clusters[c])) : c \in Range(queue)}}

\* C20: when the run returns, every slave of every cluster it was given has had
\* its Join attempted, and its SyncFull if the Join succeeded, no task is still
\* running, and the run returns an error exactly when a slave failed.
SyncWaitsForSlaves ==
    \A p \in Callers :
        Returned(p) =>
            /\ SlavesOf(call[p].given) \subseteq DOMAIN call[p].tasks
            /\ \A a \in DOMAIN call[p].tasks : call[p].tasks[a].st \in Finished
            /\ call[p].err # NoError <=>
                  \E a \in DOMAIN call[p].tasks : call[p].tasks[a].st # "synced"

\* The positions of the calls of one kind in the log of the last MoveCluster.
Calls(op) == {i \in DOMAIN last.log : last.log[i].op = op}

\* C22: every snapshot of the source master is deleted, highest index first, before
\* the first SyncMove is issued; when a SnapshotDelete fails, MoveCluster returns
\* the Snapshot error, no SyncMove and no SyncCluster having been issued.
SnapshotsDroppedFirst ==
    last.op = "MoveCluster" =>
        /\ \A i \in Calls("SnapshotDelete"), j \in Calls("SyncMove") : i < j
        /\ \A i, j \in Calls("SnapshotDelete") : i < j => last.log[i].arg > last.log[j].arg
        /\ Calls("SyncMove") # {} =>
              /\ {last.log[i].arg : i \in Calls("SnapshotDelete")}
                    = 0 .. last.before.source.snapshots - 1
              /\ \A i \in Calls("SnapshotDelete") : last.log[i].ok
        /\ (\E i \in Calls("SnapshotDelete") : ~last.log[i].ok) =>
              /\ last.err = ErrSnapshot
              /\ Calls("SyncMove") = {}
              /\ last.synced = {}

\* The second of two snapshots could not be deleted; no hash was moved.
SnapshotFailedWitness ==
    /\ last.op = "MoveCluster"
    /\ last.err = ErrSnapshot
    /\ last.before.source.snapshots = 2
    /\ last.before.source.files # {}
    /\ Cardinality(Calls("SnapshotDelete")) = 2
    /\ Calls("SyncMove") = {}

\* The call got as far as the loop of SyncMove.
ReachedMoves ==
    /\ Calls("SyncList") # {}
    /\ \A i \in Calls("SyncList") \cup Calls("SnapshotDelete") : last.log[i].ok

\* C23: a SyncMove that fails does not stop the move: SyncMove is attempted for
\* every hash of the source master's SyncList, the SyncCluster runs of the source
\* and of the target are both awaited, and the call returns the Sync error exactly
\* when a SyncMove failed, whatever the two SyncCluster runs returned.
MoveGoesOn ==
    (last.op = "MoveCluster" /\ ReachedMoves) =>
        /\ {last.log[i].arg : i \in Calls("SyncMove")} = last.before.source.files
        /\ last.synced = {"source", "target"}
        /\ last.err = IF \E i \in Calls("SyncMove") : ~last.log[i].ok THEN ErrSync
                      ELSE NoError

\* Of two hashes the first SyncMove failed and the second was still attempted; the
\* SyncCluster run of the target failed and left it paralyzed; Sync is returned.
MoveGoesOnWitness ==
    /\ last.op = "MoveCluster"
    /\ last.err = ErrSync
    /\ \E i, j \in Calls("SyncMove") : i < j /\ ~last.log[i].ok /\ last.log[j].ok
    /\ clusters[last.target].Paralyzed

\* C26: a MoveCluster call that is refused, with NotAvailableForClusterAction or
\* with NoSpace, leaves the frozen flag of the source and of the target as it was.
RefusedMoveKeepsFrozen ==
    (last.op = "MoveCluster" /\ last.err \in Refusals) =>
        /\ clusters[last.source].Frozen = last.before.source.frozen
        /\ clusters[last.target].Frozen = last.before.target.frozen

\* The node Find would hand out of a cluster for the map type, nil when it has none.
UsableNode(cluster, mapType) ==
    IF mapType = MT_Read THEN HighQualityNode(cluster) ELSE Master(cluster)

\* C27: when the index lists the hash under a cluster that is not paralyzed and has
\* a usable node, Find returns the id and an address of a cluster that is not
\* paralyzed, never NoAvailableClusterNode, also when the index lists the hash
\* under a paralyzed cluster as well.
FindPrefersHealthy ==
    \A p \in Callers :
        (/\ call[p].op = "Find"
         /\ ~call[p].getAllErr
         /\ \E c \in index[call[p].hash] :
               /\ ~clusters[c].Paralyzed
               /\ UsableNode(clusters[c], call[p].mapType) # NilNode) =>
            /\ call[p].res.err = NoError
            /\ ~clusters[call[p].res.clusterId].Paralyzed
            /\ call[p].res.address # ""

\* The chunks on a data node that were there before this write: Create answered
\* exists = true for them and no task of this write stored them.
ExistedBefore ==
    {<<task[t].address, task[t].hash>> :
        t \in {u \in DOMAIN task : task[u].created /\ task[u].exists /\ task[u].blame = ""}}
    \ StoredByWrite

\* C25: a failed write destroys no data that existed before it: a chunk that
\* Create found already stored is still on its data node after the pipeline has
\* returned its error.
FailedWriteKeepsOldData ==
    (pc = "done" /\ ret.err # NoError) => ExistedBefore \subseteq stored

\* The pass of revert's loop in which Delete succeeds and the chunk leaves the list.
RevertDeletes == Revert /\ chunks # <<>> /\ chunks' = Tail(chunks)

\* One pass of revert's loop, as the claim has it: revert returns only when no
\* chunk is left; a chunk leaves the list only by a Delete that succeeded; a chunk
\* whose lookup or Delete failed goes to the tail and nothing is deleted.
RevertPass ==
    pc = "revert" =>
        /\ pc' = "done" => chunks = <<>>
        /\ chunks # <<>> =>
              \/ /\ chunks' = Tail(chunks)
                 /\ stored' = stored \ {<<Head(chunks).address, Head(chunks).Hash>>}
              \/ /\ chunks' = Append(Tail(chunks), Head(chunks))
                 /\ stored' = stored

\* C24: revert returns only when the list of recorded chunks is empty, each chunk
\* having left it by a successful Delete, a failed one going to the tail to be
\* retried; so revert ends when the Delete of every chunk succeeds in the end (the
\* pass that deletes is taken again and again while it can be), and does not end
\* while a chunk keeps failing.
RevertEnds ==
    /\ [][RevertPass]_vars
    /\ SF_vars(RevertDeletes) => (pc = "revert" ~> pc = "done")

\* revert has returned after it deleted a chunk that a task had recorded.
RevertWitness ==
    /\ pc = "done"
    /\ ret.err = "create is failed"
    /\ chunks = <<>>
    /\ Cardinality({t \in DOMAIN task : task[t].created /\ task[t].blame = ""}) = 2
    /\ stored = {}

\* ---------------------------------------------- properties of the router --

\* X-Options of a move that is not "<source>,<target>": no comma has a character on
\* both of its sides.
MalformedMove(options) ==
    ~\E i \in 2..(Len(options) - 1) : options[i] = ","

\* X-Options of a balance that is neither empty nor a list of two or more ids: one
\* id, with or without commas around it.
MalformedBalance(options) ==
    /\ \E i \in 1..Len(options) : options[i] # ","
    /\ \A i, j \in 1..Len(options) :
          (i < j /\ options[i] # "," /\ options[j] # ",") =>
              \A k \in i..j : options[k] # ","

Malformed(action, options) ==
    \/ action = "move" /\ MalformedMove(options)
    \/ action = "balance" /\ MalformedBalance(options)

\* C21: a GET request whose X-Action is none of sync, check, move, balance,
\* clusters, find is answered with status 406, and a request with one of these
\* actions and malformed X-Options is answered with status 422.
GetRefusals ==
    last.op = "handleGet" =>
        /\ last.action \notin KnownActions => last.answer.status = 406
        /\ (last.action \in KnownActions /\ Malformed(last.action, last.options)) =>
               last.answer.status = 422

====
